---- MODULE Spec2Model ----
(***************************************************************************)
(* Model of app/llm/client.py (LLMClient): the healing orchestrator        *)
(* process_with_healing, the four stage functions it awaits, the retrying  *)
(* model invoker _generate_content with its rate limiter, and the response *)
(* cleaner _clean_response.                                                *)
(*                                                                         *)
(* process_with_healing is a coroutine: one action is the code that runs   *)
(* from the completion of one awaited stage call to the start of the next  *)
(* awaited stage call (or to the return / raise of the coroutine).         *)
(***************************************************************************)
EXTENDS Integers, Sequences, FiniteSets, TLC

VARIABLES
    \* ---- process_with_healing (one run) ----
    pc,                   \* "idle", the stage call in flight, "returned", "raised"
    question,             \* argument question
    max_healing_attempts, \* argument max_healing_attempts
    healing_attempts,     \* local healing_attempts
    current_analysis,     \* local current_analysis (None or an analysis)
    current_query,        \* local current_query (None or a query string)
    validation,           \* local validation (Unbound or a dict)
    healing_result,       \* local healing_result (Unbound or a dict)
    result,               \* the returned payload (Unbound until return)
    exc,                  \* the exception that escaped (NoExc until raise)
    \* ---- history of the run ----
    calls,                \* stage -> number of invocations made so far
    lastCall,             \* the most recently invoked stage
    invalidCount,         \* Validate calls that returned a falsy isValid
    patchCount,           \* Heal calls that returned with neither flag set
    raised,               \* number of stage calls that raised
    caught,               \* the exception the loop's handler caught last
    cause,                \* the exception that caught wraps
    iterations,           \* loop iterations begun (passes of the loop guard)
    iterAttempts,         \* healing_attempts when the current iteration began
    iterAnalysis,         \* current_analysis when the current iteration began
    iterEntry,            \* how it was reached: "first", "patch",
                          \* "reanalysis" (continue) or "except" (handler)
    iterAnalyzed,         \* whether the current iteration invoked Analyze
    args,                 \* stage -> argument of its most recent invocation
    \* ---- the client: rate limiter and _generate_content ----
    max_retries,          \* self.max_retries
    rate_limit_delay,     \* self._rate_limit_delay (seconds)
    request_timeout,      \* self.request_timeout (seconds)
    last_call_time,       \* self._last_call_time
    clock,                \* time.time(), whole seconds since construction
    gpc,                  \* "idle", "rl_sleep", "call", "retry_sleep",
                          \* "returned", "raised"
    attempt,              \* loop variable of _generate_content
    wake,                 \* when the asyncio.sleep in flight is due
    gresult,              \* what _generate_content returned
    gexc,                 \* what _generate_content raised
    \* ---- history of the _generate_content invocations ----
    invocations,          \* _generate_content invocations started
    attemptsMade,         \* remote calls started by this invocation
    rlDone,               \* _handle_rate_limit calls completed by it
    sleeps,               \* asyncio.sleep(1) calls started by it
    totalCalls,           \* remote calls started since construction
    callStart,            \* start time of the latest remote call
    prevCallStart,        \* start time of the one before
    prevLast,             \* _last_call_time before the latest release
    lastFailure,          \* the exception of the latest failed attempt
    \* ---- concurrent callers of _handle_rate_limit on the one client ----
    rpc,                  \* caller -> "idle", "rl_sleep", "call"
    seen,                 \* caller -> the _last_call_time it read
    rwake,                \* caller -> when its asyncio.sleep(delay) is due
    rstart,               \* caller -> start time of its latest remote call
    lastWriter,           \* the caller that wrote _last_call_time last
    \* ---- _clean_response applied to a response, and again to its result ----
    cpc,                  \* "idle", "raw", "cleaned", "recleaned"
    response,             \* the text given to _clean_response
    cleaned,              \* _clean_response(response)
    recleaned             \* _clean_response(cleaned)

ivars == <<iterations, iterAttempts, iterAnalysis, iterEntry, iterAnalyzed>>

hvars == <<pc, question, max_healing_attempts, healing_attempts,
           current_analysis, current_query, validation, healing_result,
           result, exc, calls, lastCall, invalidCount, patchCount, raised,
           caught, cause, ivars, args>>

gvars == <<max_retries, rate_limit_delay, request_timeout, last_call_time,
           clock, gpc, attempt, wake, gresult, gexc, invocations,
           attemptsMade, rlDone, sleeps, totalCalls, callStart, prevCallStart,
           prevLast, lastFailure>>

\* the client's fields other than the limiter's timestamp and the clock
gothers == <<max_retries, rate_limit_delay, request_timeout, gpc, attempt,
             wake, gresult, gexc, invocations, attemptsMade, rlDone, sleeps,
             totalCalls, callStart, prevCallStart, prevLast, lastFailure>>

cvars == <<cpc, response, cleaned, recleaned>>

rvars == <<rpc, seen, rwake, rstart, lastWriter>>

vars == <<hvars, gvars, cvars, rvars>>

(***************************************************************************)
(* Bounds of the model.                                                    *)
(***************************************************************************)
MaxBudget == 3
MaxRetries == 3
MaxDelay == 2
MaxTimeout == 2
MaxClock == 7
MaxInvocations == 2
MaxPieces == 6

(***************************************************************************)
(* Values.                                                                 *)
(***************************************************************************)
None == "None"
Unbound == [unbound |-> TRUE]
NoExc == [type |-> "NoExc", status_code |-> 0, detail |-> <<>>]

Questions == {"how many rows", "top customers"}
\* max_healing_attempts is an unchecked int argument: negative, zero, positive
Budgets == {-1} \cup (0 .. MaxBudget)
Stages == {"analyze", "generate", "validate", "heal"}

\* json.loads results of analyze_query (opaque to the orchestrator, and
\* returned unchecked: the JSON text null comes back as None)
Analyses == {"analysis_a", "analysis_b", None}
\* cleaned strings returned by generate_query
Queries == {"SELECT 1", ""}
\* dicts returned by validate_query; the isValid key may be missing
ValidationResults ==
    {[isValid |-> TRUE], [isValid |-> FALSE], [explanation |-> "no verdict"]}
\* dicts returned by heal_query; every key may be missing
HealingResults ==
    {[requires_human_review |-> h, requires_reanalysis |-> r,
      healed_query |-> "SELECT 2", notes |-> "n"] : h, r \in BOOLEAN}
    \cup {[healed_query |-> ""], [notes |-> "n"]}

\* dict.get(key, default)
Get(d, key, default) == IF key \in DOMAIN d THEN d[key] ELSE default

(***************************************************************************)
(* Exceptions.  A message is a sequence of text fragments, so that string  *)
(* formatting f"prefix: {str(e)}" is concatenation and "contains" can be   *)
(* decided.                                                                *)
(***************************************************************************)
Exc(type, msg) == [type |-> type, status_code |-> 0, detail |-> msg]

\* HTTPException(status_code=500, detail=...)
HTTPException(detail) ==
    [type |-> "HTTPException", status_code |-> 500, detail |-> detail]

\* str(e): an HTTPException prints as "<status_code>: <detail>", any other
\* exception as its message
Str(e) == IF e.type = "HTTPException" THEN <<"500: ">> \o e.detail ELSE e.detail

\* what _generate_content re-raises after its last attempt (line 151)
GenerationCauses ==
    {Exc("ValueError", <<"Empty response from LLM">>),
     Exc("TimeoutError", <<>>),
     Exc("RemoteError", <<"quota exceeded">>)}
\* what json.loads raises on a cleaned response that is not JSON
ParseCauses == {Exc("JSONDecodeError", <<"Expecting value">>)}

\* the inner except json.JSONDecodeError of a JSON-expecting stage
ParseFailure(prefix, c) ==
    IF c.type = "JSONDecodeError" THEN HTTPException(<<prefix>> \o Str(c)) ELSE c

\* the outer except Exception of each stage function
AnalyzeFailure(c) ==
    HTTPException(<<"Analysis failed: ">>
                  \o Str(ParseFailure("Invalid response format: ", c)))
GenerateFailure(c) == HTTPException(<<"Query generation failed: ">> \o Str(c))
ValidateFailure(c) ==
    HTTPException(<<"Validation failed: ">>
                  \o Str(ParseFailure("Invalid validation response: ", c)))
HealFailure(c) ==
    HTTPException(<<"Healing failed: ">>
                  \o Str(ParseFailure("Invalid healing response: ", c)))

\* mutation: the wrapper drops the message of what it wraps
ProcessFailureNoCause(e) == HTTPException(<<"Processing failed">>)

\* the outermost except Exception of process_with_healing
ProcessFailure(e) == HTTPException(<<"Processing failed: ">> \o Str(e))

(***************************************************************************)
(* Payloads returned by process_with_healing.                              *)
(***************************************************************************)
\* mutation: Success reports the attempt number of the log line (line 365)
SuccessPayloadAttemptNumber(q, a, v, ha) ==
    [success |-> TRUE, query |-> q, analysis |-> a, validation |-> v,
     healing_attempts |-> ha + 1]

\* mutation: Success carries the analysis where the query belongs
SuccessPayloadAnalysisAsQuery(q, a, v, ha) ==
    [success |-> TRUE, query |-> a, analysis |-> q, validation |-> v,
     healing_attempts |-> ha]

SuccessPayload(q, a, v, ha) ==
    [success |-> TRUE, query |-> q, analysis |-> a, validation |-> v,
     healing_attempts |-> ha]

HumanReviewPayload(v, ha, h) ==
    [success |-> FALSE, error |-> "Query requires human review",
     validation |-> v, healing_attempts |-> ha, notes |-> Get(h, "notes", "")]

MaxAttemptsPayload(ha) ==
    [success |-> FALSE, error |-> "Max healing attempts reached",
     healing_attempts |-> ha]

(***************************************************************************)
(* Decisions of process_with_healing.                                      *)
(***************************************************************************)
\* mutation: the loop guard off by one
LoopGuardInclusive(ha, m) == ha <= m

\* mutation: the first pass of the loop is not guarded
LoopGuardSkipsFirst(ha, m) == ha < m \/ ha = 0

\* while healing_attempts < max_healing_attempts
LoopGuard(ha, m) == ha < m

\* mutation: the validity test negated
IsValidNegated(v) == Get(v, "isValid", FALSE) # TRUE

\* if validation.get("isValid", False)
IsValid(v) == Get(v, "isValid", FALSE) = TRUE

\* mutation: requires_reanalysis checked before requires_human_review
HealDecisionReanalysisFirst(h) ==
    IF Get(h, "requires_reanalysis", FALSE) = TRUE THEN "reanalysis"
    ELSE IF Get(h, "requires_human_review", FALSE) = TRUE THEN "review"
    ELSE "patch"

\* mutation: requires_reanalysis ignored
HealDecisionNoReanalysis(h) ==
    IF Get(h, "requires_human_review", FALSE) = TRUE THEN "review" ELSE "patch"

\* the order of the two checks on healing_result
HealDecision(h) ==
    IF Get(h, "requires_human_review", FALSE) = TRUE THEN "review"
    ELSE IF Get(h, "requires_reanalysis", FALSE) = TRUE THEN "reanalysis"
    ELSE "patch"

\* mutation: the handler re-raises at once
HandlerRaisesAlways(ha, m) == TRUE

\* mutation: the handler re-raises only once the count has passed the budget
HandlerRaisesStrict(ha, m) == ha > m

\* if healing_attempts >= max_healing_attempts: raise   (after the increment)
HandlerRaises(ha, m) == ha >= m

(***************************************************************************)
(* Control transfers: each sets pc, calls, lastCall, result and exc.       *)
(***************************************************************************)
Invoke(stage, a) ==
    /\ pc' = stage
    /\ calls' = [calls EXCEPT ![stage] = @ + 1]
    /\ lastCall' = stage
    /\ args' = [args EXCEPT ![stage] = a]
    /\ UNCHANGED <<result, exc>>

Return(payload) ==
    /\ pc' = "returned"
    /\ result' = payload
    /\ UNCHANGED <<calls, lastCall, args, exc>>

Raise(e) ==
    /\ pc' = "raised"
    /\ exc' = ProcessFailure(e)
    /\ UNCHANGED <<calls, lastCall, args, result>>

\* the loop guard and the top of the loop body up to its first await
LoopTop(q, ha, an, m, how) ==
    IF LoopGuard(ha, m)
    THEN /\ iterations' = iterations + 1
         /\ iterAttempts' = ha
         /\ iterAnalysis' = an
         /\ iterEntry' = how
         /\ iterAnalyzed' = (an = None)
         /\ IF an = None THEN Invoke("analyze", q) ELSE Invoke("generate", an)
    ELSE /\ Return(MaxAttemptsPayload(ha))
         /\ UNCHANGED ivars

\* except Exception as e: healing_attempts += 1; raise if the budget is
\* used up, else go round the loop again
Handler(e, c) ==
    /\ healing_attempts' = healing_attempts + 1
    /\ raised' = raised + 1
    /\ caught' = e
    /\ cause' = c
    /\ IF HandlerRaises(healing_attempts + 1, max_healing_attempts)
       THEN Raise(e) /\ UNCHANGED ivars
       ELSE LoopTop(question, healing_attempts + 1, current_analysis,
                    max_healing_attempts, "except")
    /\ UNCHANGED <<question, max_healing_attempts, current_analysis,
                   current_query, validation, healing_result, invalidCount,
                   patchCount>>

(***************************************************************************)
(* Actions of process_with_healing.                                        *)
(***************************************************************************)
Start(q, m) ==
    /\ pc = "idle"
    /\ question' = q
    /\ max_healing_attempts' = m
    /\ healing_attempts' = 0
    /\ current_analysis' = None
    /\ current_query' = None
    /\ LoopTop(q, 0, None, m, "first")
    /\ UNCHANGED <<validation, healing_result, invalidCount, patchCount,
                   raised, caught, cause>>
    /\ UNCHANGED <<gvars, cvars, rvars>>

AnalyzeReturns(a) ==
    /\ pc = "analyze"
    /\ current_analysis' = a
    /\ Invoke("generate", a)
    /\ UNCHANGED ivars
    /\ UNCHANGED <<question, max_healing_attempts, healing_attempts,
                   current_query, validation, healing_result, invalidCount,
                   patchCount, raised, caught, cause>>
    /\ UNCHANGED <<gvars, cvars, rvars>>

AnalyzeRaises(c) ==
    /\ pc = "analyze"
    /\ Handler(AnalyzeFailure(c), c)
    /\ UNCHANGED <<gvars, cvars, rvars>>

GenerateReturns(q) ==
    /\ pc = "generate"
    /\ current_query' = q
    /\ Invoke("validate", q)
    /\ UNCHANGED ivars
    /\ UNCHANGED <<question, max_healing_attempts, healing_attempts,
                   current_analysis, validation, healing_result, invalidCount,
                   patchCount, raised, caught, cause>>
    /\ UNCHANGED <<gvars, cvars, rvars>>

GenerateRaises(c) ==
    /\ pc = "generate"
    /\ Handler(GenerateFailure(c), c)
    /\ UNCHANGED <<gvars, cvars, rvars>>

ValidateReturns(v) ==
    /\ pc = "validate"
    /\ validation' = v
    /\ IF IsValid(v)
       THEN /\ Return(SuccessPayload(current_query, current_analysis, v,
                                     healing_attempts))
            /\ UNCHANGED <<healing_attempts, invalidCount>>
       ELSE /\ healing_attempts' = healing_attempts + 1
            /\ invalidCount' = invalidCount + 1
            /\ Invoke("heal", <<v, current_query, current_analysis>>)
    /\ UNCHANGED <<question, max_healing_attempts, current_analysis,
                   current_query, healing_result, patchCount, raised,
                   caught, cause, ivars>>
    /\ UNCHANGED <<gvars, cvars, rvars>>

ValidateRaises(c) ==
    /\ pc = "validate"
    /\ Handler(ValidateFailure(c), c)
    /\ UNCHANGED <<gvars, cvars, rvars>>

HealReturns(h) ==
    /\ pc = "heal"
    /\ healing_result' = h
    /\ CASE HealDecision(h) = "review" ->
              /\ Return(HumanReviewPayload(validation, healing_attempts, h))
              /\ UNCHANGED <<current_analysis, current_query, patchCount,
                             ivars>>
         [] HealDecision(h) = "reanalysis" ->
              /\ current_analysis' = None
              /\ LoopTop(question, healing_attempts, None,
                         max_healing_attempts, "reanalysis")
              /\ UNCHANGED <<current_query, patchCount>>
         [] OTHER ->
              /\ current_query' = Get(h, "healed_query", None)
              /\ LoopTop(question, healing_attempts, current_analysis,
                         max_healing_attempts, "patch")
              /\ patchCount' = patchCount + 1
              /\ UNCHANGED current_analysis
    /\ UNCHANGED <<question, max_healing_attempts, healing_attempts,
                   validation, invalidCount, raised, caught, cause>>
    /\ UNCHANGED <<gvars, cvars, rvars>>

HealRaises(c) ==
    /\ pc = "heal"
    /\ Handler(HealFailure(c), c)
    /\ UNCHANGED <<gvars, cvars, rvars>>

\* the client as constructed, with the default configuration
ClientIdle ==
    /\ max_retries = 3
    /\ rate_limit_delay = 1
    /\ request_timeout = 90
    /\ last_call_time = 0
    /\ clock = 0
    /\ gpc = "idle"
    /\ attempt = 0
    /\ wake = 0
    /\ gresult = None
    /\ gexc = NoExc
    /\ invocations = 0
    /\ attemptsMade = 0
    /\ rlDone = 0
    /\ sleeps = 0
    /\ totalCalls = 0
    /\ callStart = 0
    /\ prevCallStart = 0
    /\ prevLast = 0
    /\ lastFailure = NoExc

\* no process_with_healing run
RunIdle ==
    /\ pc = "idle"
    /\ question = None
    /\ max_healing_attempts = 0
    /\ healing_attempts = 0
    /\ current_analysis = None
    /\ current_query = None
    /\ validation = Unbound
    /\ healing_result = Unbound
    /\ result = Unbound
    /\ exc = NoExc
    /\ calls = [s \in Stages |-> 0]
    /\ lastCall = None
    /\ invalidCount = 0
    /\ patchCount = 0
    /\ raised = 0
    /\ caught = NoExc
    /\ cause = NoExc
    /\ iterations = 0
    /\ iterAttempts = 0
    /\ iterAnalysis = None
    /\ iterEntry = None
    /\ iterAnalyzed = FALSE
    /\ args = [s \in Stages |-> None]

\* _clean_response not in use
CleanIdle ==
    /\ cpc = "idle"
    /\ response = <<>>
    /\ cleaned = <<>>
    /\ recleaned = <<>>

\* the concurrent callers taken into view
Callers == {"run_a", "run_b"}

\* no caller inside _handle_rate_limit or the remote call
RaceIdle ==
    /\ rpc = [c \in Callers |-> "idle"]
    /\ seen = [c \in Callers |-> 0]
    /\ rwake = [c \in Callers |-> 0]
    /\ rstart = [c \in Callers |-> 0]
    /\ lastWriter = None

Init == RunIdle /\ ClientIdle /\ CleanIdle /\ RaceIdle

Next ==
    \/ \E q \in Questions, m \in Budgets : Start(q, m)
    \/ \E a \in Analyses : AnalyzeReturns(a)
    \/ \E c \in GenerationCauses \cup ParseCauses : AnalyzeRaises(c)
    \/ \E q \in Queries : GenerateReturns(q)
    \/ \E c \in GenerationCauses : GenerateRaises(c)
    \/ \E v \in ValidationResults : ValidateReturns(v)
    \/ \E c \in GenerationCauses \cup ParseCauses : ValidateRaises(c)
    \/ \E h \in HealingResults : HealReturns(h)
    \/ \E c \in GenerationCauses \cup ParseCauses : HealRaises(c)

Spec == Init /\ [][Next]_vars

\* the stage call in flight returns or raises
StageCompletes ==
    \/ \E a \in Analyses : AnalyzeReturns(a)
    \/ \E c \in GenerationCauses \cup ParseCauses : AnalyzeRaises(c)
    \/ \E q \in Queries : GenerateReturns(q)
    \/ \E c \in GenerationCauses : GenerateRaises(c)
    \/ \E v \in ValidationResults : ValidateReturns(v)
    \/ \E c \in GenerationCauses \cup ParseCauses : ValidateRaises(c)
    \/ \E h \in HealingResults : HealReturns(h)
    \/ \E c \in GenerationCauses \cup ParseCauses : HealRaises(c)

\* runs in which every awaited stage call eventually returns or raises
SpecFair == Spec /\ WF_vars(StageCompletes)

(***************************************************************************)
(* The rate limiter and _generate_content, one sequential caller.  Time is *)
(* counted in whole seconds; Tick lets it pass between any two steps.  An  *)
(* action is the code from one suspension point (a sleep, the remote call) *)
(* to the next.                                                            *)
(***************************************************************************)
\* configurations: LLM_MAX_RETRIES, RATE_LIMIT_DELAY, REQUEST_TIMEOUT
RetryLimits == 0 .. MaxRetries
Delays == 0 .. MaxDelay
Timeouts == 1 .. MaxTimeout

\* response.text of a remote call that returned
Texts == {"", "some text"}
EmptyResponse == Exc("ValueError", <<"Empty response from LLM">>)
Timeout == Exc("TimeoutError", <<>>)
RemoteError == Exc("RemoteError", <<"quota exceeded">>)

\* await asyncio.sleep(1) between attempts
RetrySleep == 1

\* mutation: no wait at all
RateLimitNoWait(now, last, delay) == 0

\* _handle_rate_limit: how long to sleep (0: no sleep)
RateLimitWait(now, last, delay) ==
    IF now - last < delay THEN delay - (now - last) ELSE 0

\* mutation: the last attempt tested against max_retries
LastAttemptOffByOne(a, retries) == a = retries

\* if attempt == self.max_retries - 1
LastAttempt(a, retries) == a = retries - 1

\* self._last_call_time = time.time(), return to _generate_content, and the
\* remote call is started (no suspension point in between)
Release(made, rld) ==
    /\ last_call_time' = clock
    /\ prevLast' = last_call_time
    /\ gpc' = "call"
    /\ callStart' = clock
    /\ prevCallStart' = callStart
    /\ totalCalls' = totalCalls + 1
    /\ attemptsMade' = made + 1
    /\ rlDone' = rld + 1
    /\ UNCHANGED wake

\* one pass of the for loop up to its first suspension point
BeginAttempt(made, rld) ==
    IF RateLimitWait(clock, last_call_time, rate_limit_delay) > 0
    THEN /\ gpc' = "rl_sleep"
         /\ wake' = clock
                     + RateLimitWait(clock, last_call_time, rate_limit_delay)
         /\ attemptsMade' = made
         /\ rlDone' = rld
         /\ UNCHANGED <<last_call_time, prevLast, callStart, prevCallStart,
                        totalCalls>>
    ELSE Release(made, rld)

\* the except branch of _generate_content
Failed(c) ==
    /\ lastFailure' = c
    /\ IF LastAttempt(attempt, max_retries)
       THEN /\ gpc' = "raised"
            /\ gexc' = c
            /\ UNCHANGED <<wake, sleeps>>
       ELSE /\ gpc' = "retry_sleep"
            /\ wake' = clock + RetrySleep
            /\ sleeps' = sleeps + 1
            /\ UNCHANGED gexc
    /\ UNCHANGED <<gresult, attempt>>

GenStart ==
    /\ gpc \in {"idle", "returned", "raised"}
    /\ invocations < MaxInvocations
    /\ invocations' = invocations + 1
    /\ attempt' = 0
    /\ sleeps' = 0
    /\ gresult' = None
    /\ gexc' = NoExc
    /\ lastFailure' = NoExc
    /\ IF max_retries <= 0
       THEN \* range(self.max_retries) is empty: the function falls off
            \* its end and returns None
            /\ gpc' = "returned"
            /\ attemptsMade' = 0
            /\ rlDone' = 0
            /\ UNCHANGED <<wake, last_call_time, prevLast, callStart,
                           prevCallStart, totalCalls>>
       ELSE BeginAttempt(0, 0)
    /\ UNCHANGED <<max_retries, rate_limit_delay, request_timeout, clock>>
    /\ UNCHANGED <<hvars, cvars, rvars>>

RateLimitWake ==
    /\ gpc = "rl_sleep"
    /\ clock >= wake
    /\ Release(attemptsMade, rlDone)
    /\ UNCHANGED <<max_retries, rate_limit_delay, request_timeout, clock,
                   attempt, gresult, gexc, invocations, sleeps, lastFailure>>
    /\ UNCHANGED <<hvars, cvars, rvars>>

CallReturns(text) ==
    /\ gpc = "call"
    /\ IF text # ""
       THEN /\ gpc' = "returned"
            /\ gresult' = text
            /\ UNCHANGED <<attempt, wake, gexc, sleeps, lastFailure>>
       ELSE Failed(EmptyResponse)
    /\ UNCHANGED <<max_retries, rate_limit_delay, request_timeout, clock,
                   last_call_time, invocations, attemptsMade, rlDone,
                   totalCalls, callStart, prevCallStart, prevLast>>
    /\ UNCHANGED <<hvars, cvars, rvars>>

CallRaises(c) ==
    /\ gpc = "call"
    /\ c = Timeout => clock - callStart >= request_timeout
    /\ Failed(c)
    /\ UNCHANGED <<max_retries, rate_limit_delay, request_timeout, clock,
                   last_call_time, invocations, attemptsMade, rlDone,
                   totalCalls, callStart, prevCallStart, prevLast>>
    /\ UNCHANGED <<hvars, cvars, rvars>>

RetryWake ==
    /\ gpc = "retry_sleep"
    /\ clock >= wake
    /\ attempt' = attempt + 1
    /\ BeginAttempt(attemptsMade, rlDone)
    /\ UNCHANGED <<max_retries, rate_limit_delay, request_timeout, clock,
                   gresult, gexc, invocations, sleeps, lastFailure>>
    /\ UNCHANGED <<hvars, cvars, rvars>>

Tick ==
    /\ clock < MaxClock
    /\ clock' = clock + 1
    /\ UNCHANGED <<max_retries, rate_limit_delay, request_timeout,
                   last_call_time, gpc, attempt, wake, gresult, gexc,
                   invocations, attemptsMade, rlDone, sleeps, totalCalls,
                   callStart, prevCallStart, prevLast, lastFailure>>
    /\ UNCHANGED <<hvars, cvars, rvars>>

\* the client as constructed under any configuration
InitGen ==
    /\ RunIdle
    /\ CleanIdle
    /\ RaceIdle
    /\ max_retries \in RetryLimits
    /\ rate_limit_delay \in Delays
    /\ request_timeout \in Timeouts
    /\ last_call_time = 0
    /\ clock = 0
    /\ gpc = "idle"
    /\ attempt = 0
    /\ wake = 0
    /\ gresult = None
    /\ gexc = NoExc
    /\ invocations = 0
    /\ attemptsMade = 0
    /\ rlDone = 0
    /\ sleeps = 0
    /\ totalCalls = 0
    /\ callStart = 0
    /\ prevCallStart = 0
    /\ prevLast = 0
    /\ lastFailure = NoExc

NextGen ==
    \/ GenStart
    \/ RateLimitWake
    \/ \E text \in Texts : CallReturns(text)
    \/ \E c \in {Timeout, RemoteError} : CallRaises(c)
    \/ RetryWake
    \/ Tick

SpecGen == InitGen /\ [][NextGen]_vars

(***************************************************************************)
(* The rate limiter under concurrent callers.  Several stage calls (of     *)
(* concurrent process_with_healing runs) share the client on one event     *)
(* loop: the code between two awaits runs without interruption, and a      *)
(* caller asleep in asyncio.sleep(delay) lets the others run.              *)
(***************************************************************************)
\* mutation: a timestamp already written by another caller is kept
ReleaseCallerFirstWins(c) ==
    /\ last_call_time' = IF lastWriter = None THEN clock ELSE last_call_time
    /\ rstart' = [rstart EXCEPT ![c] = clock]
    /\ rpc' = [rpc EXCEPT ![c] = "call"]
    /\ lastWriter' = c

\* self._last_call_time = time.time(), return to _generate_content, and
\* the caller's remote call is started
ReleaseCaller(c) ==
    /\ last_call_time' = clock
    /\ rstart' = [rstart EXCEPT ![c] = clock]
    /\ rpc' = [rpc EXCEPT ![c] = "call"]
    /\ lastWriter' = c

\* _handle_rate_limit from its entry to its first suspension point
EnterRateLimit(c) ==
    /\ rpc[c] = "idle"
    /\ seen' = [seen EXCEPT ![c] = last_call_time]
    /\ IF RateLimitWait(clock, last_call_time, rate_limit_delay) > 0
       THEN /\ rpc' = [rpc EXCEPT ![c] = "rl_sleep"]
            /\ rwake' = [rwake EXCEPT ![c] = clock +
                    RateLimitWait(clock, last_call_time, rate_limit_delay)]
            /\ UNCHANGED <<last_call_time, rstart, lastWriter>>
       ELSE /\ ReleaseCaller(c)
            /\ UNCHANGED rwake
    /\ UNCHANGED <<clock, gothers>>
    /\ UNCHANGED <<hvars, cvars>>

\* the caller's asyncio.sleep(delay) is over
WakeCaller(c) ==
    /\ rpc[c] = "rl_sleep"
    /\ clock >= rwake[c]
    /\ ReleaseCaller(c)
    /\ UNCHANGED <<seen, rwake, clock, gothers>>
    /\ UNCHANGED <<hvars, cvars>>

\* the caller's remote call returns or raises
RemoteCallEnds(c) ==
    /\ rpc[c] = "call"
    /\ rpc' = [rpc EXCEPT ![c] = "idle"]
    /\ UNCHANGED <<seen, rwake, rstart, lastWriter, last_call_time, clock,
                   gothers>>
    /\ UNCHANGED <<hvars, cvars>>

\* the client as constructed under any rate-limit delay
InitRace ==
    /\ RunIdle
    /\ CleanIdle
    /\ RaceIdle
    /\ max_retries = 3
    /\ rate_limit_delay \in Delays
    /\ request_timeout = 90
    /\ last_call_time = 0
    /\ clock = 0
    /\ gpc = "idle"
    /\ attempt = 0
    /\ wake = 0
    /\ gresult = None
    /\ gexc = NoExc
    /\ invocations = 0
    /\ attemptsMade = 0
    /\ rlDone = 0
    /\ sleeps = 0
    /\ totalCalls = 0
    /\ callStart = 0
    /\ prevCallStart = 0
    /\ prevLast = 0
    /\ lastFailure = NoExc

NextRace ==
    \/ \E c \in Callers : EnterRateLimit(c)
    \/ \E c \in Callers : WakeCaller(c)
    \/ \E c \in Callers : RemoteCallEnds(c)
    \/ Tick

SpecRace == InitRace /\ [][NextRace]_vars

(***************************************************************************)
(* _clean_response.  A text is a sequence of characters; strip, in and     *)
(* split are computed as Python computes them.                             *)
(***************************************************************************)
\* the grave accent of a fence (a TLA+ string cannot hold that character)
Backtick == "GRAVE"
Fence == <<Backtick, Backtick, Backtick>>
FenceJson == Fence \o <<"j", "s", "o", "n">>
Whitespace == {" ", "\n", "\t"}

\* str.strip()
RECURSIVE LStrip(_)
LStrip(t) ==
    IF t # <<>> /\ Head(t) \in Whitespace THEN LStrip(Tail(t)) ELSE t

RECURSIVE RStrip(_)
RStrip(t) ==
    IF t # <<>> /\ t[Len(t)] \in Whitespace
    THEN RStrip(SubSeq(t, 1, Len(t) - 1))
    ELSE t

Strip(t) == RStrip(LStrip(t))

\* str.find(sep) + 1: the first position at which sep occurs in t, 0 if none
Find(t, sep) ==
    LET hits == {j \in 1 .. (Len(t) - Len(sep) + 1) :
                    SubSeq(t, j, j + Len(sep) - 1) = sep}
    IN  IF hits = {} THEN 0 ELSE CHOOSE j \in hits : \A k \in hits : j <= k

\* sep in t
In(sep, t) == Find(t, sep) # 0

\* str.split(sep): the pieces between the non-overlapping occurrences of
\* sep, found left to right
RECURSIVE Split(_, _)
Split(t, sep) ==
    IF Find(t, sep) = 0
    THEN <<t>>
    ELSE <<SubSeq(t, 1, Find(t, sep) - 1)>>
         \o Split(SubSeq(t, Find(t, sep) + Len(sep), Len(t)), sep)

\* mutation: the result is returned without the final strip
CleanResponseNoFinalStrip(r) ==
    LET text == Strip(r)
    IN  IF In(FenceJson, text)
        THEN Split(Split(text, FenceJson)[2], Fence)[1]
        ELSE IF In(Fence, text)
             THEN Split(Split(text, Fence)[2], Fence)[1]
             ELSE text

\* mutation: the ```json branch is missing
CleanResponsePlainFenceOnly(r) ==
    LET text == Strip(r)
    IN  IF In(Fence, text)
        THEN Strip(Split(Split(text, Fence)[2], Fence)[1])
        ELSE Strip(text)

\* _clean_response(response) for a str response
CleanResponse(r) ==
    LET text == Strip(r)
    IN  IF In(FenceJson, text)
        THEN Strip(Split(Split(text, FenceJson)[2], Fence)[1])
        ELSE IF In(Fence, text)
             THEN Strip(Split(Split(text, Fence)[2], Fence)[1])
             ELSE Strip(text)

\* the responses of the model: up to MaxPieces of these pieces in a row
Pieces == {Fence, <<Backtick>>, <<"j", "s", "o", "n">>, <<" ">>, <<"x">>}

RECURSIVE Responses(_)
Responses(n) ==
    IF n = 0
    THEN {<<>>}
    ELSE LET shorter == Responses(n - 1)
         IN  shorter \cup {t \o p : t \in shorter, p \in Pieces}

CleanOnce ==
    /\ cpc = "raw"
    /\ cleaned' = CleanResponse(response)
    /\ cpc' = "cleaned"
    /\ UNCHANGED <<response, recleaned>>
    /\ UNCHANGED <<hvars, gvars, rvars>>

CleanAgain ==
    /\ cpc = "cleaned"
    /\ recleaned' = CleanResponse(cleaned)
    /\ cpc' = "recleaned"
    /\ UNCHANGED <<response, cleaned>>
    /\ UNCHANGED <<hvars, gvars, rvars>>

InitClean ==
    /\ RunIdle
    /\ ClientIdle
    /\ RaceIdle
    /\ cpc = "raw"
    /\ response \in Responses(MaxPieces)
    /\ cleaned = <<>>
    /\ recleaned = <<>>

NextClean == CleanOnce \/ CleanAgain

SpecClean == InitClean /\ [][NextClean]_vars

(***************************************************************************)
(* Properties of process_with_healing.                                     *)
(***************************************************************************)
Started == pc # "idle"
Ended == pc \in {"returned", "raised"}
\* every Validate call made so far returned a falsy isValid
AllInvalid == invalidCount = calls["validate"]
\* every Heal call made so far returned with neither flag set
AllPatch == patchCount = calls["heal"]
Truthy(d, key) == d # Unbound /\ Get(d, key, FALSE) = TRUE
Max0(m) == IF m < 0 THEN 0 ELSE m

\* small is a contiguous part of big
Contains(big, small) ==
    \E i \in 0 .. (Len(big) - Len(small)) :
        SubSeq(big, i + 1, i + Len(small)) = small

\* C1 as stated: Heal is invoked at most max_healing_attempts times, and a
\* run in which every Validate is invalid and every Heal sets no flag, with
\* no stage raising, ends with 'Max healing attempts reached' and
\* healing_attempts = max_healing_attempts.
C1_AsStated ==
    Started =>
        /\ calls["heal"] <= max_healing_attempts
        /\ (pc = "returned" /\ raised = 0 /\ AllInvalid /\ AllPatch)
              => result = MaxAttemptsPayload(max_healing_attempts)

\* C1 amended: the same with max_healing_attempts read as 0 when negative.
C1_HealBudget ==
    Started =>
        /\ calls["heal"] <= Max0(max_healing_attempts)
        /\ (Ended /\ raised = 0 /\ AllInvalid /\ AllPatch)
              => /\ pc = "returned"
                 /\ result = [success |-> FALSE,
                              error |-> "Max healing attempts reached",
                              healing_attempts |-> Max0(max_healing_attempts)]

C1_Witness ==
    /\ pc = "returned" /\ raised = 0 /\ AllInvalid /\ AllPatch
    /\ max_healing_attempts >= 2
    /\ calls["heal"] = max_healing_attempts
    /\ Get(result, "error", None) = "Max healing attempts reached"

FirstValidateValid == calls["validate"] = 1 /\ Truthy(validation, "isValid")

\* C2 as stated: if the first Validate call of a run returns isValid=true,
\* the run returns Success with healing_attempts = 0.
C2_AsStated ==
    FirstValidateValid =>
        /\ pc = "returned"
        /\ Get(result, "success", FALSE) = TRUE
        /\ Get(result, "healing_attempts", -1) = 0

\* C2 amended: if the first Validate call returns isValid=true the run
\* returns Success, and its healing_attempts is the number of stage calls
\* that raised before that call: 0 when none raised.
C2_FirstValid ==
    FirstValidateValid =>
        /\ pc = "returned"
        /\ Get(result, "success", FALSE) = TRUE
        /\ Get(result, "healing_attempts", -1) = raised
        /\ Get(result, "query", None) = current_query
        /\ calls["heal"] = 0

C2_Witness ==
    /\ FirstValidateValid /\ raised = 0 /\ pc = "returned"
    /\ Get(result, "healing_attempts", -1) = 0

C4_HumanReviewEnds ==
    Truthy(healing_result, "requires_human_review") =>
        /\ pc = "returned"
        /\ Get(result, "success", TRUE) = FALSE
        /\ Get(result, "error", None) = "Query requires human review"
        /\ Get(result, "healing_attempts", -1) = healing_attempts
        /\ Get(result, "validation", Unbound) = validation
        /\ lastCall = "heal"

C4_Witness ==
    /\ Truthy(healing_result, "requires_human_review")
    /\ Truthy(healing_result, "requires_reanalysis")
    /\ pc = "returned"
    /\ calls["heal"] = 2

\* a step in which the Heal call in flight returns
HealReturnsStep == pc = "heal" /\ pc' # "heal" /\ raised' = raised

\* C5: a step in which Heal returns requires_reanalysis=true without
\* requires_human_review clears current_analysis and leaves healing_attempts
\* as it was; if the budget allows another iteration the stage it invokes
\* is Analyze, not Generate; and in an iteration reached that way Generate
\* is in flight only after Analyze has been invoked in it.
C5_Reanalysis ==
    /\ []((pc = "generate" /\ iterEntry = "reanalysis") =>
              (iterAnalyzed /\ calls["analyze"] >= 2))
    /\ [][(/\ HealReturnsStep
            /\ Truthy(healing_result', "requires_reanalysis")
            /\ ~Truthy(healing_result', "requires_human_review"))
          => /\ current_analysis' = None
             /\ healing_attempts' = healing_attempts
             /\ healing_attempts' >= 1
             /\ IF healing_attempts' < max_healing_attempts
                THEN /\ pc' = "analyze"
                     /\ lastCall' = "analyze"
                     /\ calls'["analyze"] = calls["analyze"] + 1
                     /\ calls'["generate"] = calls["generate"]
                ELSE pc' = "returned"]_vars

C5_Witness ==
    /\ pc = "analyze" /\ lastCall = "analyze" /\ current_analysis = None
    /\ Truthy(healing_result, "requires_reanalysis")
    /\ calls["analyze"] = 2 /\ raised = 0
    /\ healing_attempts = 1

\* C6 as stated: every run that ends, ends by returning a payload.
C6_AsStated == Ended => pc = "returned"

\* C6 amended: a run ends either by returning a payload (Success, or a
\* failure payload with an error message and healing_attempts) or, when a
\* stage call raised and the incremented healing_attempts reached the
\* budget, by raising the 500 error 'Processing failed: ...'.
C6_Outcome ==
    /\ pc = "returned" =>
          /\ exc = NoExc
          /\ "healing_attempts" \in DOMAIN result
          /\ \/ /\ result.success = TRUE
                /\ DOMAIN result = {"success", "query", "analysis",
                                    "validation", "healing_attempts"}
             \/ /\ result.success = FALSE
                /\ "error" \in DOMAIN result
                /\ result.error \in {"Query requires human review",
                                      "Max healing attempts reached"}
    /\ pc = "raised" =>
          /\ result = Unbound
          /\ raised >= 1
          /\ healing_attempts >= max_healing_attempts
          /\ exc.type = "HTTPException" /\ exc.status_code = 500
          /\ Len(exc.detail) >= 1 /\ exc.detail[1] = "Processing failed: "

C6_Witness ==
    /\ pc = "raised" /\ raised = 2 /\ max_healing_attempts = 2
    /\ exc.status_code = 500

\* C7: whatever escapes process_with_healing is a 500 HTTPException whose
\* detail contains the message of the originating exception, and what a
\* stage function raises to the loop is a 500 HTTPException containing it
\* too.
C7_Wrapped ==
    /\ raised >= 1 =>
          /\ caught.type = "HTTPException" /\ caught.status_code = 500
          /\ Contains(caught.detail, cause.detail)
    /\ pc = "raised" =>
          /\ exc.type = "HTTPException" /\ exc.status_code = 500
          /\ Contains(exc.detail, cause.detail)
          /\ Contains(exc.detail, caught.detail)

C7_Witness ==
    /\ pc = "raised"
    /\ cause.type = "JSONDecodeError"
    /\ Contains(exc.detail, <<"Expecting value">>)
    /\ lastCall = "heal"

(***************************************************************************)
(* Properties of _generate_content and _handle_rate_limit.                 *)
(***************************************************************************)
\* C8 as stated: an invocation returns only the non-empty text of an
\* attempt, makes at most max_retries attempts, and when it does not return
\* text it has made exactly max_retries attempts and raises the exception
\* of the last one.
C8_AsStated ==
    /\ attemptsMade <= max_retries
    /\ gpc = "returned" =>
          /\ attemptsMade >= 1
          /\ gresult \in Texts \ {""}
    /\ gpc = "raised" =>
          /\ attemptsMade = max_retries
          /\ gexc = lastFailure
          /\ gexc \in {EmptyResponse, Timeout, RemoteError}

\* C8 for max_retries >= 1, where the code does what the claim says.
C8_PositiveRetries == max_retries >= 1 => C8_AsStated

C8_Witness ==
    /\ gpc = "raised" /\ max_retries = 3 /\ attemptsMade = 3
    /\ gexc = EmptyResponse

\* C9: each release of _handle_rate_limit happens at least
\* _rate_limit_delay after the call time recorded before it and records
\* the time of the release in _last_call_time; so two consecutive remote
\* calls of the sequential caller start at least _rate_limit_delay apart.
C9_RateLimit ==
    /\ [](totalCalls >= 1 => last_call_time - prevLast >= rate_limit_delay)
    /\ [](totalCalls >= 2 => callStart - prevCallStart >= rate_limit_delay)
    /\ [][totalCalls' # totalCalls
            => /\ totalCalls' = totalCalls + 1
               /\ last_call_time' = clock'
               /\ clock' - last_call_time >= rate_limit_delay]_vars

C9_Witness ==
    /\ gpc = "call" /\ rate_limit_delay = 2
    /\ totalCalls = 2 /\ attemptsMade = 2
    /\ callStart - prevCallStart = 2
    /\ last_call_time = clock

(***************************************************************************)
(* Properties of _clean_response.                                          *)
(***************************************************************************)
\* C10: cleaning is idempotent: cleaning the cleaned text gives the cleaned
\* text, whichever branch the first cleaning took.
C10_Idempotent == cpc = "recleaned" => recleaned = cleaned

\* an unclosed ```json fence followed by text that strip() changes
C10_Witness ==
    /\ cpc = "recleaned"
    /\ response = <<" ">> \o FenceJson \o <<" ", "x", " ">>
    /\ cleaned = <<"x">>
    /\ recleaned = <<"x">>

\* the text is ```json, a body without a fence, ``` (whitespace around it)
JsonBody(r) ==
    SubSeq(Strip(r), Len(FenceJson) + 1, Len(Strip(r)) - Len(Fence))

JsonWrapped(r) ==
    /\ Len(Strip(r)) >= Len(FenceJson) + Len(Fence)
    /\ SubSeq(Strip(r), 1, Len(FenceJson)) = FenceJson
    /\ SubSeq(Strip(r), Len(Strip(r)) - Len(Fence) + 1, Len(Strip(r))) = Fence
    /\ ~In(Fence, JsonBody(r))

\* the text after the first fence of t
AfterFirstFence(t) == SubSeq(t, Find(t, Fence) + Len(Fence), Len(t))

\* t holds two fences, one after the other
TwoFences(t) == In(Fence, t) /\ In(Fence, AfterFirstFence(t))

\* what lies between the first two fences of t
BetweenFences(t) ==
    SubSeq(AfterFirstFence(t), 1, Find(AfterFirstFence(t), Fence) - 1)

\* the plain-fence and no-fence parts of C11
C11_OtherBranches ==
    /\ (TwoFences(Strip(response)) /\ ~In(FenceJson, Strip(response)))
          => cleaned = Strip(BetweenFences(Strip(response)))
    /\ ~In(Fence, Strip(response)) => cleaned = Strip(response)

\* C11 as stated: for ```json + body + ``` with no fence inside the body the
\* result is the trimmed body; with a fence but no ```json tag it is the
\* trimmed text between the first two fences; with no fence it is the
\* trimmed text.
C11_AsStated ==
    cpc \in {"cleaned", "recleaned"} =>
        /\ JsonWrapped(response) => cleaned = Strip(JsonBody(response))
        /\ C11_OtherBranches

\* C11 amended: the same, for a body that does not end in a grave accent
\* (one that does runs into the closing fence, and the first three grave
\* accents are taken as the fence).
C11_RoundTrip ==
    cpc \in {"cleaned", "recleaned"} =>
        /\ (/\ JsonWrapped(response)
            /\ \/ JsonBody(response) = <<>>
               \/ JsonBody(response)[Len(JsonBody(response))] # Backtick)
              => cleaned = Strip(JsonBody(response))
        /\ C11_OtherBranches

C11_Witness ==
    /\ cpc = "cleaned"
    /\ response = FenceJson \o <<" ", "x", " ">> \o Fence
    /\ JsonWrapped(response)
    /\ cleaned = <<"x">>

(***************************************************************************)
(* Properties of the loop iterations of process_with_healing.              *)
(***************************************************************************)
\* the healed_query of the latest Heal result, as line 415 reads it
Healed == Get(healing_result, "healed_query", None)

\* C12: when Heal returns with neither flag set, the current query becomes
\* its healed_query (an empty one included), and the Validate call of the
\* next loop iteration is made on that query: the query passed to the next
\* Validate equals the healed_query of the preceding Heal.
C12_AsStated ==
    /\ (pc = "generate" /\ iterEntry = "patch") => current_query = Healed
    /\ (pc = "validate" /\ iterEntry = "patch") => args["validate"] = Healed

\* a step in which a stage call raises and the loop's handler runs
HandlerStep == raised' = raised + 1

\* C13: every exception a stage raises inside the loop consumes exactly one
\* healing attempt, whichever stage raised it: once the handler has run,
\* healing_attempts is one more than it was when the iteration began.
C13_AsStated ==
    [][HandlerStep => healing_attempts' = iterAttempts + 1]_vars

\* C14 as stated: a stage exception escapes the loop only if
\* healing_attempts already equalled max_healing_attempts when the stage
\* raised; one raised while healing_attempts < max_healing_attempts is
\* absorbed and the loop goes on.
C14_AsStated ==
    [][HandlerStep =>
          /\ pc' = "raised" => healing_attempts = max_healing_attempts
          /\ healing_attempts < max_healing_attempts =>
                 pc' \in {"analyze", "generate"}]_vars

\* C14: the handler first adds one to healing_attempts; the exception
\* escapes the loop exactly when the count it was raised under is within
\* one of the budget (healing_attempts + 1 >= max_healing_attempts), and
\* otherwise a new iteration begins.
C14_LastAttempt ==
    [][HandlerStep =>
          /\ healing_attempts' = healing_attempts + 1
          /\ pc' = "raised" <=>
                 healing_attempts + 1 >= max_healing_attempts
          /\ pc' # "raised" =>
                 /\ pc' \in {"analyze", "generate"}
                 /\ iterations' = iterations + 1]_vars

\* Analyze raised under healing_attempts = 0 < 1 and the run failed
C14_Witness ==
    /\ pc = "raised"
    /\ max_healing_attempts = 1
    /\ lastCall = "analyze"
    /\ raised = 1
    /\ healing_attempts = 1
    /\ exc = ProcessFailure(caught)

(***************************************************************************)
(* Properties of _generate_content's pacing.                               *)
(***************************************************************************)
\* a step that starts a remote call
CallStartStep == totalCalls' = totalCalls + 1

\* C15: within _generate_content every remote call attempt, the first and
\* each retry, starts right after one completed _handle_rate_limit (as many
\* completed waits as attempts, the limiter's timestamp set in the step that
\* starts the call); a sleep of one second follows each failed attempt that
\* another attempt follows (one sleep fewer than attempts once a call is in
\* flight or the function has ended), and none follows the last permitted
\* attempt or a successful one.
C15_Pacing ==
    /\ [](/\ rlDone = attemptsMade
          /\ gpc \in {"rl_sleep", "retry_sleep"} => sleeps = attemptsMade
          /\ gpc = "retry_sleep" => attemptsMade < max_retries
          /\ gpc = "call" => sleeps = attemptsMade - 1
          /\ (gpc \in {"returned", "raised"} /\ attemptsMade > 0) =>
                 sleeps = attemptsMade - 1
          /\ gpc = "raised" => attemptsMade = max_retries)
    /\ [][/\ CallStartStep =>
                 /\ gpc' = "call"
                 /\ rlDone' = attemptsMade'
                 /\ last_call_time' = clock
                 /\ gpc \in {"rl_sleep", "retry_sleep"} =>
                        rlDone' = rlDone + 1
          /\ sleeps' # sleeps =>
                 \/ gpc' = "retry_sleep" /\ gpc = "call"
                       /\ sleeps' = sleeps + 1 /\ wake' = clock + 1
                       /\ lastFailure' # NoExc
                 \/ sleeps' = 0 /\ invocations' = invocations + 1
          /\ (gpc = "call" /\ gpc' \in {"returned", "raised"}) =>
                 sleeps' = sleeps]_vars

\* three attempts failed: three waits, two sleeps, none after the last
C15_Witness ==
    /\ gpc = "raised"
    /\ max_retries = 3
    /\ attemptsMade = 3
    /\ rlDone = 3
    /\ sleeps = 2

(***************************************************************************)
(* Properties of the rate limiter under concurrent callers.                *)
(***************************************************************************)
Abs(n) == IF n < 0 THEN -n ELSE n

\* the spacing a lock around the limiter would give: any two remote calls
\* in flight started at least _rate_limit_delay apart
HardSpacing ==
    \A a, b \in Callers :
        (a # b /\ rpc[a] = "call" /\ rpc[b] = "call") =>
            Abs(rstart[a] - rstart[b]) >= rate_limit_delay

\* C16: under concurrent callers the limiter guarantees only that each
\* caller's remote call starts no sooner than _rate_limit_delay after the
\* _last_call_time that caller read, and that _last_call_time is the start
\* time of whichever caller wrote it last (a later writer overwrites an
\* earlier one); it does not keep two callers that read the same
\* _last_call_time from both being released with their remote calls
\* starting less than _rate_limit_delay apart (C16_Witness is that state).
C16_BestEffort ==
    /\ \A c \in Callers :
           rpc[c] = "call" =>
               /\ rstart[c] >= seen[c] + rate_limit_delay
               /\ rstart[c] <= last_call_time
    /\ lastWriter # None => last_call_time = rstart[lastWriter]

\* both callers read the same timestamp, both were released, their remote
\* calls started less than the delay apart, and the later start time has
\* overwritten the earlier one
C16_Witness ==
    /\ rpc = [c \in Callers |-> "call"]
    /\ seen["run_a"] = seen["run_b"]
    /\ rate_limit_delay > 0
    /\ rstart["run_a"] >= seen["run_a"] + rate_limit_delay
    /\ rstart["run_a"] < rstart["run_b"]
    /\ rstart["run_b"] - rstart["run_a"] < rate_limit_delay
    /\ ~HardSpacing
    /\ lastWriter = "run_b"
    /\ last_call_time = rstart["run_b"]

(***************************************************************************)
(* Properties of the analysis held across iterations.                      *)
(***************************************************************************)
\* a step that passes the loop guard and begins an iteration
BeginStep == iterations' = iterations + 1

\* what C17 says of one step
C17_Step ==
    /\ calls'["analyze"] # calls["analyze"] => BeginStep
    /\ BeginStep => (pc' = "analyze" <=> current_analysis' = None)
    /\ (BeginStep /\ pc' = "analyze") =>
           \/ iterEntry' = "first"
           \/ iterEntry' = "reanalysis"
           \/ iterEntry' = "except" /\ pc = "analyze"
    /\ (pc = "analyze" /\ pc' = "generate") =>
           healing_attempts' = healing_attempts
    /\ (HandlerStep /\ pc \in {"generate", "validate", "heal"}) =>
           /\ current_analysis' = current_analysis
           /\ pc' # "analyze"

\* C17: Analyze is invoked in an iteration exactly when no analysis is held
\* at its start, which is the case in the first iteration, after a Heal
\* that asked for reanalysis and after a failed Analyze; an Analyze that
\* returns leaves healing_attempts alone; and when Generate, Validate or
\* Heal raises, the analysis stays and the next iteration does not invoke
\* Analyze.
C17_AsStated == [][C17_Step]_vars

\* the iteration under way runs on an analysis that is None
NullHeld == pc \in {"generate", "validate", "heal"} /\ current_analysis = None

\* C17 for iterations whose Analyze result is not None: the same statement
C17_ObjectAnalysis == [][~NullHeld => C17_Step]_vars

\* C18: in a run with max_healing_attempts >= 0 the counter stays within
\* 0 <= healing_attempts <= max_healing_attempts in every state, also after
\* a Heal call raises in the iteration that used the last attempt, and no
\* step makes it smaller.
C18_AsStated ==
    /\ []((Started /\ max_healing_attempts >= 0) =>
              (0 <= healing_attempts
                  /\ healing_attempts <= max_healing_attempts))
    /\ [][healing_attempts' >= healing_attempts]_vars

\* C18 without its upper bound: the counter starts at 0, never decreases,
\* and passes the budget by at most one
C18_Monotone ==
    /\ [](0 <= healing_attempts
             /\ healing_attempts <= Max0(max_healing_attempts) + 1)
    /\ [][healing_attempts' >= healing_attempts]_vars

(***************************************************************************)
(* Properties of the Success payload.                                      *)
(***************************************************************************)
\* C19: a Success payload carries the query that was passed to the most
\* recent Validate call, that call's result, whose isValid holds, and the
\* analysis that was passed to the Generate call that produced the query;
\* Validate is the last stage invoked, so no query is returned as Success
\* without having been validated.
C19_ValidatedSuccess ==
    /\ pc = "validate" =>
           /\ args["validate"] = current_query
           /\ args["generate"] = current_analysis
    /\ Truthy(result, "success") =>
           /\ pc = "returned"
           /\ lastCall = "validate"
           /\ calls["validate"] >= 1
           /\ Get(result, "query", "missing") = args["validate"]
           /\ Get(result, "validation", Unbound) = validation
           /\ IsValid(validation)
           /\ Get(result, "analysis", "missing") = args["generate"]

\* Success after a reanalysis: the second analysis and the query generated
\* from it
C19_Witness ==
    /\ pc = "returned"
    /\ Truthy(result, "success")
    /\ calls["analyze"] = 2
    /\ calls["validate"] = 2
    /\ Get(result, "analysis", "missing") = "analysis_b"
    /\ args["generate"] = "analysis_b"
    /\ Get(result, "query", "missing") = "SELECT 1"
    /\ args["validate"] = "SELECT 1"

(***************************************************************************)
(* Termination of process_with_healing.                                    *)
(***************************************************************************)
\* C20: if every stage call eventually returns or raises, every run ends
\* (returns or raises), and it never begins more than max_healing_attempts
\* loop iterations, since every iteration after which the loop goes on has
\* added at least one to healing_attempts; with max_healing_attempts <= 0
\* the run returns the 'Max healing attempts reached' payload with
\* healing_attempts 0 and has called no stage.
C20_Terminates ==
    /\ [](iterations <= Max0(max_healing_attempts))
    /\ [][(BeginStep /\ iterations >= 1) =>
              healing_attempts' >= iterAttempts + 1]_vars
    /\ []((Started /\ max_healing_attempts <= 0) =>
              /\ pc = "returned"
              /\ result = MaxAttemptsPayload(0)
              /\ \A st \in Stages : calls[st] = 0)
    /\ (Started ~> Ended)

\* a run that used its whole budget of three iterations and ended
C20_Witness ==
    /\ Ended
    /\ max_healing_attempts = 3
    /\ iterations = 3
    /\ healing_attempts >= 3

====
